---- MODULE Spec2Model ----
(***************************************************************************)
(* Model of the derive macro FromToSql of diesel-sqltype-enum-pg.          *)
(*                                                                         *)
(* Two programs are modelled:                                              *)
(*   Spec     one expansion of describe (src/lib.rs:51-85) on a            *)
(*            declaration, step by step, optionally followed by further    *)
(*            expansions of declarations with the same name and the same   *)
(*            fromtosql attributes;                                        *)
(*   SpecRun  the code generate_from_to_sql emits (src/lib.rs:89-104):     *)
(*            the bodies of to_sql and from_sql, step by step, for an      *)
(*            enum whose Display / FromStr are supplied by the consumer.   *)
(***************************************************************************)
EXTENDS Integers, Sequences, FiniteSets, TLC

VARIABLES
    \* ---- expansion of describe
    input,      \* the declaration handed to the macro (the TokenStream)
    pc,         \* position inside describe
    idx,        \* position of the attribute iterator (enum_typ.attrs.iter())
    inspected,  \* number of attributes the filter closure has looked at
    binding,    \* the Vec collected at line 77
    outcome,    \* what the expansion produced
    prev,       \* the finished expansion before this one (history), or NoPrev
    \* ---- the generated impls at run time
    display,    \* consumer's Display: variant -> text
    names,      \* consumer's FromStr table: variant -> text it is parsed from
    errStyle,   \* what the consumer's FromStr::Err carries
    rpc,        \* position inside to_sql / from_sql
    self,       \* the enum value to_sql is called on
    out,        \* the Output buffer
    out0,       \* the Output buffer as it was when to_sql was entered
    written,    \* the bytes the last to_sql added to the buffer
    bytes,      \* the PgValue handed to from_sql
    value,      \* the String of line 100
    ret         \* the value the call returned

genVars == <<input, pc, idx, inspected, binding, outcome, prev>>
runVars == <<display, names, errStyle, rpc, self, out, out0, written, bytes, value, ret>>
vars == <<input, pc, idx, inspected, binding, outcome, prev,
          display, names, errStyle, rpc, self, out, out0, written, bytes, value, ret>>

(***************************************************************************)
(* Bounds.                                                                 *)
(***************************************************************************)
MaxAttrs == 2
MaxVariants == 2
MaxBytes == 2

(***************************************************************************)
(* Tokens and declarations.                                                *)
(***************************************************************************)
Ident(s) == [t |-> "ident", s |-> s]
EqTok == [t |-> "eq", s |-> "="]
Lit(s) == [t |-> "lit", s |-> s]

\* Argument lists of a fromtosql attribute, as token sequences.
ArgForms ==
    { <<Ident("sql_type"), EqTok, Ident("EnumStructSqlType")>>,
      <<Ident("sql_type"), EqTok, Ident("enumstructsqltype")>>,
      <<Ident("other_key"), EqTok, Ident("EnumStructSqlType")>>,
      <<Ident("SQL_TYPE"), EqTok, Ident("EnumStructSqlType")>>,
      <<Ident("sql_type")>>,
      <<Ident("sql_type"), EqTok, Ident("EnumStructSqlType"), EqTok, Ident("enumstructsqltype")>>,
      <<Ident("sql_type"), Ident("EnumStructSqlType")>>,
      <<Ident("sql_type"), EqTok>>,
      <<Ident("sql_type"), EqTok, Lit("EnumStructSqlType")>>,
      <<>> }

\* Attributes a declaration may carry: fromtosql(...) and attributes of
\* another path whose arguments would be accepted were the path not checked.
Attrs ==
    { [path |-> "fromtosql", args |-> a] : a \in ArgForms }
    \cup { [path |-> p, args |-> <<Ident("sql_type"), EqTok, Ident("Other")>>]
             : p \in {"strum", "FromToSql"} }

AttrLists == UNION { [1..n -> Attrs] : n \in 0..MaxAttrs }

Kinds == {"enum", "struct", "union"}
TypeNames == {"EnumStruct", "enumstruct"}

Inputs ==
    [kind : Kinds, ident : TypeNames, nvariants : 0..MaxVariants, attrs : AttrLists]

NoInput == [kind |-> "none", ident |-> "", nvariants |-> 0, attrs |-> <<>>]

(***************************************************************************)
(* Outcomes of an expansion.                                               *)
(***************************************************************************)
NoOutcome == [kind |-> "none", impls |-> <<>>, msg |-> ""]
Failure(k, m) == [kind |-> k, impls |-> <<>>, msg |-> m]
Impl(tr, att, ident) == [trait |-> tr, sql_type |-> att, for |-> ident]

\* The first sentence of the text error_message returns, without the
\* backquotes around fromtosql; the rest of the literal is a fixed usage
\* example.
error_message == "fromtosql attribute not found."

ParseAnyItem(decl) == [ok |-> TRUE, err |-> ""]

\* syn::parse2::<ItemEnum>: outer attributes, visibility, then the enum
\* keyword.
ParseItemEnum(decl) ==
    IF decl.kind = "enum"
    THEN [ok |-> TRUE, err |-> ""]
    ELSE [ok |-> FALSE, err |-> "expected enum"]

AnyPath(path, name) == TRUE

\* a.path().is_ident(name)
IsIdent(path, name) == path = name

\* Punctuated::<Ident, Eq>::parse_separated_nonempty from position i: an
\* identifier, then while the next token is =, the = and an identifier.
RECURSIVE ParseSeparatedNonempty(_, _, _)
ParseSeparatedNonempty(ts, i, acc) ==
    IF i > Len(ts)
    THEN [ok |-> FALSE, idents |-> <<>>, next |-> i,
          err |-> "unexpected end of input, expected identifier"]
    ELSE IF ts[i].t # "ident"
    THEN [ok |-> FALSE, idents |-> <<>>, next |-> i, err |-> "expected identifier"]
    ELSE IF i + 1 <= Len(ts) /\ ts[i + 1].t = "eq"
    THEN ParseSeparatedNonempty(ts, i + 2, Append(acc, ts[i].s))
    ELSE [ok |-> TRUE, idents |-> Append(acc, ts[i].s), next |-> i + 1, err |-> ""]

\* Attribute::parse_args_with(parser): the parser must consume every token.
ParseArgsWith(a) ==
    LET r == ParseSeparatedNonempty(a.args, 1, <<>>)
    IN  IF ~r.ok THEN [ok |-> FALSE, idents |-> <<>>, err |-> r.err]
        ELSE IF r.next <= Len(a.args)
        THEN [ok |-> FALSE, idents |-> <<>>, err |-> "unexpected token"]
        ELSE [ok |-> TRUE, idents |-> r.idents, err |-> ""]

AnyKey(k) == TRUE

\* if let Some("sql_type") = ident.as_deref()
KeyMatches(k) == k = "sql_type"

\* The body of the flat_map closure once the arguments parsed: first() is
\* the key, last() the value.
Collected(idents) ==
    LET key == idents[1]
        val == idents[Len(idents)]
    IN  IF KeyMatches(key) THEN <<val>> ELSE <<>>

CollectLazily(i, n, b) == i > n \/ b # <<>>

\* collect::<Vec<_>>() drains the iterator: it stops when the attributes are
\* exhausted.
CollectDone(i, n, b) == i > n

LastOf(b) == b[Len(b)]

\* binding.first()
First(b) == b[1]

generate_swapped(att, ident) ==
    [kind |-> "tokens",
     impls |-> <<Impl("ToSql", ident, att), Impl("FromSql", ident, att)>>,
     msg |-> ""]

\* The quote! template: two impl blocks.
generate_from_to_sql(att, ident) ==
    [kind |-> "tokens",
     impls |-> <<Impl("ToSql", att, ident), Impl("FromSql", att, ident)>>,
     msg |-> ""]

FromToSqlAttrs(decl) == SelectSeq(decl.attrs, LAMBDA a : a.path = "fromtosql")

\* What two declarations must agree on for the expansions to be compared.
Key(decl) == [ident |-> decl.ident, attrs |-> FromToSqlAttrs(decl)]

NoPrev ==
    [set |-> FALSE, key |-> Key(NoInput), nvariants |-> 0, nattrs |-> 0,
     outcome |-> NoOutcome]

(***************************************************************************)
(* The generated code's environment: strings, bytes, the consumer's traits.*)
(***************************************************************************)
Variants == 1..MaxVariants
NoVariant == 0

\* Texts are sequences of code points; the labels a consumer may give its
\* variants (A, e-acute, AB).
Labels == { <<65>>, <<233>>, <<65, 66>> }

\* Bytes a PgValue may hold: two ASCII bytes, the lead byte and the
\* continuation byte of a two-byte sequence. No byte of a three- or four-byte
\* sequence is drawn.
ByteVals == {65, 66, 195, 169}
ByteSeqs == UNION { [1..n -> ByteVals] : n \in 0..MaxBytes }

\* The states of the Output buffer to_sql may be handed.
Buffers == { b \in ByteSeqs : Len(b) <= 1 }

NoRet == [ok |-> FALSE, tag |-> "none", v |-> NoVariant, msg |-> <<>>]

\* Fragments of a formatted message: a literal word, {:?} of a str, {:?} of
\* an error value.
Word(w) == [k |-> "lit", s |-> w, t |-> <<>>]
DebugStr(t) == [k |-> "debug_str", s |-> "", t |-> t]
DebugErr(e) == [k |-> "debug_err", s |-> e, t |-> <<>>]

\* The UTF-8 encoding of one code point below 0x800.
Utf8Encode(cp) ==
    IF cp < 128 THEN <<cp>> ELSE <<192 + (cp \div 64), 128 + (cp % 64)>>

\* String::as_bytes: the UTF-8 bytes of the text.
RECURSIVE AsBytes(_)
AsBytes(text) ==
    IF text = <<>> THEN <<>> ELSE Utf8Encode(Head(text)) \o AsBytes(Tail(text))

\* String::from_utf8 on one- and two-byte sequences.
RECURSIVE FromUtf8(_, _, _)
FromUtf8(bs, i, acc) ==
    IF i > Len(bs) THEN [ok |-> TRUE, text |-> acc]
    ELSE IF bs[i] < 128 THEN FromUtf8(bs, i + 1, Append(acc, bs[i]))
    ELSE IF /\ bs[i] >= 194 /\ bs[i] <= 223
            /\ i + 1 <= Len(bs) /\ bs[i + 1] >= 128 /\ bs[i + 1] <= 191
    THEN FromUtf8(bs, i + 2, Append(acc, (bs[i] - 192) * 64 + (bs[i + 1] - 128)))
    ELSE [ok |-> FALSE, text |-> <<>>]

\* <String as FromSql<Text, Pg>>::from_sql(bytes)
StringFromSql(bs) == FromUtf8(bs, 1, <<>>)

\* self.to_string(): the consumer's Display.
to_string(v) == display[v]

\* Self::from_str: the consumer's FromStr. A text that names a variant gives
\* the first such variant; any other text gives the consumer's error, which
\* is strum's ParseError::VariantNotFound or an error holding the text.
from_str(text) ==
    LET hits == { v \in Variants : names[v] = text }
    IN  IF hits # {}
        THEN [ok |-> TRUE, v |-> CHOOSE v \in hits : \A w \in hits : v <= w,
              e |-> DebugErr("")]
        ELSE [ok |-> FALSE, v |-> NoVariant,
              e |-> IF errStyle = "strum" THEN DebugErr("VariantNotFound")
                    ELSE DebugStr(text)]

WriteFirstByte(buf, b) == [ok |-> TRUE, buf |-> buf \o SubSeq(b, 1, 1)]

\* out.write_all(bytes) on the Pg Output, a growable byte vector.
WriteAll(buf, b) == [ok |-> TRUE, buf |-> buf \o b]

ToSqlNull == [ok |-> TRUE, tag |-> "IsNull::Yes", v |-> NoVariant, msg |-> <<>>]

\* Ok(::diesel::serialize::IsNull::No)
ToSqlOk == [ok |-> TRUE, tag |-> "IsNull::No", v |-> NoVariant, msg |-> <<>>]

MapErrQuiet(e) == <<Word("Error"), Word("converting"), Word("from"), Word("PgValue")>>

\* format!("Error converting from PgValue {:?}", e)
MapErr(e) == <<Word("Error"), Word("converting"), Word("from"), Word("PgValue"), e>>

RunIdle ==
    /\ rpc = "idle" /\ self = NoVariant /\ out = <<>> /\ out0 = <<>>
    /\ written = <<>> /\ bytes = <<>> /\ value = <<>> /\ ret = NoRet

(***************************************************************************)
(* describe, step by step.                                                 *)
(***************************************************************************)
InitGen ==
    /\ input \in Inputs
    /\ pc = "parse"
    /\ idx = 0
    /\ inspected = 0
    /\ binding = <<>>
    /\ outcome = NoOutcome
    /\ prev = NoPrev

\* lines 52-55
ParseInput ==
    /\ pc = "parse"
    /\ LET r == ParseItemEnum(input)
       IN  IF r.ok
           THEN /\ pc' = "scan"
                /\ idx' = 1
                /\ outcome' = outcome
           ELSE /\ pc' = "done"
                /\ idx' = idx
                /\ outcome' = Failure("compile_error", r.err)
    /\ UNCHANGED <<input, inspected, binding, prev>>
    /\ UNCHANGED runVars

\* lines 59-77, one attribute
ScanAttr ==
    /\ pc = "scan"
    /\ ~CollectDone(idx, Len(input.attrs), binding)
    /\ LET a == input.attrs[idx]
       IN  /\ inspected' = inspected + 1
           /\ IF ~IsIdent(a.path, "fromtosql")
              THEN /\ idx' = idx + 1
                   /\ UNCHANGED <<pc, binding, outcome>>
              ELSE LET r == ParseArgsWith(a)
                   IN  IF r.ok
                       THEN /\ binding' = binding \o Collected(r.idents)
                            /\ idx' = idx + 1
                            /\ UNCHANGED <<pc, outcome>>
                       ELSE /\ pc' = "done"
                            /\ outcome' = Failure("panic", r.err)
                            /\ UNCHANGED <<idx, binding>>
    /\ UNCHANGED <<input, prev>>
    /\ UNCHANGED runVars

\* lines 79-84
Select ==
    /\ pc = "scan"
    /\ CollectDone(idx, Len(input.attrs), binding)
    /\ outcome' = IF binding = <<>>
                  THEN Failure("abort", error_message)
                  ELSE generate_from_to_sql(First(binding), input.ident)
    /\ pc' = "done"
    /\ UNCHANGED <<input, idx, inspected, binding, prev>>
    /\ UNCHANGED runVars

\* The attribute lists that differ from l in at most one attribute of another
\* path, inserted or removed: the fromtosql attributes and their order stay.
OtherAttrs == { a \in Attrs : a.path # "fromtosql" }
Edits(l) ==
    {l}
    \cup { SubSeq(l, 1, p - 1) \o <<o>> \o SubSeq(l, p, Len(l)) :
             p \in (IF Len(l) < MaxAttrs THEN 1..(Len(l) + 1) ELSE {}), o \in OtherAttrs }
    \cup { SubSeq(l, 1, p - 1) \o SubSeq(l, p + 1, Len(l)) :
             p \in { q \in 1..Len(l) : l[q].path # "fromtosql" } }

\* A later expansion, of an enum declaration that agrees with the finished
\* one on its name and its fromtosql attributes and differs from it in its
\* variants and in its other attributes.
InvokeAgain ==
    /\ pc = "done"
    /\ input.kind = "enum"
    /\ \E n \in 0..MaxVariants, l \in Edits(input.attrs) :
         input' = [input EXCEPT !.nvariants = n, !.attrs = l]
    /\ prev' = [set |-> TRUE, key |-> Key(input), nvariants |-> input.nvariants,
                nattrs |-> Len(input.attrs), outcome |-> outcome]
    /\ pc' = "parse"
    /\ idx' = 0
    /\ inspected' = 0
    /\ binding' = <<>>
    /\ outcome' = NoOutcome
    /\ UNCHANGED runVars

Init == InitGen /\ display = <<>> /\ names = <<>> /\ errStyle = "none" /\ RunIdle

Next == ParseInput \/ ScanAttr \/ Select \/ InvokeAgain

Spec == Init /\ [][Next]_vars

(***************************************************************************)
(* The generated to_sql and from_sql, step by step.                        *)
(***************************************************************************)
InitRun ==
    /\ display \in [Variants -> Labels]
    /\ names \in [Variants -> Labels]
    /\ errStyle \in {"strum", "custom"}
    /\ RunIdle
    /\ input = NoInput /\ pc = "off" /\ idx = 0 /\ inspected = 0
    /\ binding = <<>> /\ outcome = NoOutcome /\ prev = NoPrev

Callable == rpc \in {"idle", "to_returned", "from_returned"}

\* to_sql is entered on a value, with an Output buffer in any state.
ToSqlCall ==
    /\ Callable
    /\ \E v \in Variants, buf \in Buffers :
         /\ self' = v
         /\ out' = buf
         /\ out0' = buf
    /\ rpc' = "to_string"
    /\ written' = <<>> /\ bytes' = <<>> /\ value' = <<>> /\ ret' = NoRet
    /\ UNCHANGED <<display, names, errStyle>>
    /\ UNCHANGED genVars

\* line 92, self.to_string()
ToStringStep ==
    /\ rpc = "to_string"
    /\ value' = to_string(self)
    /\ rpc' = "write_all"
    /\ UNCHANGED <<display, names, errStyle, self, out, out0, written, bytes, ret>>
    /\ UNCHANGED genVars

\* line 92, out.write_all(... .as_bytes())?
WriteAllStep ==
    /\ rpc = "write_all"
    /\ LET b == AsBytes(value)
           r == WriteAll(out, b)
       IN  /\ out' = r.buf
           /\ written' = SubSeq(r.buf, Len(out) + 1, Len(r.buf))
           /\ IF r.ok
              THEN rpc' = "to_ret" /\ ret' = ret
              ELSE rpc' = "to_returned"
                   /\ ret' = [ok |-> FALSE, tag |-> "io", v |-> NoVariant, msg |-> <<>>]
    /\ UNCHANGED <<display, names, errStyle, self, out0, bytes, value>>
    /\ UNCHANGED genVars

\* line 93
ToSqlReturn ==
    /\ rpc = "to_ret"
    /\ ret' = ToSqlOk
    /\ rpc' = "to_returned"
    /\ UNCHANGED <<display, names, errStyle, self, out, out0, written, bytes, value>>
    /\ UNCHANGED genVars

\* from_sql is entered on any PgValue.
FromSqlCall ==
    /\ Callable
    /\ bytes' \in ByteSeqs
    /\ rpc' = "from_text"
    /\ self' = NoVariant /\ out' = <<>> /\ out0' = <<>> /\ written' = <<>>
    /\ value' = <<>> /\ ret' = NoRet
    /\ UNCHANGED <<display, names, errStyle>>
    /\ UNCHANGED genVars

\* from_sql is entered on the bytes the finished to_sql wrote.
ReadBack ==
    /\ rpc = "to_returned"
    /\ bytes' = written
    /\ rpc' = "from_text"
    /\ value' = <<>> /\ ret' = NoRet
    /\ UNCHANGED <<display, names, errStyle, self, out, out0, written>>
    /\ UNCHANGED genVars

\* line 100
FromText ==
    /\ rpc = "from_text"
    /\ LET r == StringFromSql(bytes)
       IN  IF r.ok
           THEN /\ value' = r.text
                /\ rpc' = "from_str"
                /\ ret' = ret
           ELSE /\ value' = value
                /\ rpc' = "from_returned"
                /\ ret' = [ok |-> FALSE, tag |-> "utf8", v |-> NoVariant, msg |-> <<>>]
    /\ UNCHANGED <<display, names, errStyle, self, out, out0, written, bytes>>
    /\ UNCHANGED genVars

\* lines 101-102
FromStrStep ==
    /\ rpc = "from_str"
    /\ LET r == from_str(value)
       IN  ret' = IF r.ok
                  THEN [ok |-> TRUE, tag |-> "value", v |-> r.v, msg |-> <<>>]
                  ELSE [ok |-> FALSE, tag |-> "message", v |-> NoVariant,
                        msg |-> MapErr(r.e)]
    /\ rpc' = "from_returned"
    /\ UNCHANGED <<display, names, errStyle, self, out, out0, written, bytes, value>>
    /\ UNCHANGED genVars

NextRun ==
    \/ ToSqlCall \/ ToStringStep \/ WriteAllStep \/ ToSqlReturn
    \/ FromSqlCall \/ ReadBack \/ FromText \/ FromStrStep

SpecRun == InitRun /\ [][NextRun]_vars

(***************************************************************************)
(* Properties of describe.                                                 *)
(***************************************************************************)
Finished == pc = "done" /\ input.kind = "enum"

F == FromToSqlAttrs(input)

\* The argument list is exactly one pair, identifier = identifier.
IsPair(args) ==
    /\ Len(args) = 3
    /\ args[1].t = "ident" /\ args[2].t = "eq" /\ args[3].t = "ident"

\* The argument list is identifiers separated by =, with nothing else.
IsChain(args) ==
    /\ Len(args) % 2 = 1
    /\ \A i \in 1..Len(args) : args[i].t = (IF i % 2 = 1 THEN "ident" ELSE "eq")

TwoImpls(att, ident) ==
    [kind |-> "tokens",
     impls |-> <<[trait |-> "ToSql", sql_type |-> att, for |-> ident],
                 [trait |-> "FromSql", sql_type |-> att, for |-> ident]>>,
     msg |-> ""]

\* C1: an enum (of any number of variants) whose one fromtosql attribute is
\* sql_type = T expands to exactly two impls, ToSql then FromSql, both for
\* the enum's name and for T as written.
C1_TwoImplsVerbatim ==
    (Finished /\ Len(F) = 1 /\ IsPair(F[1].args) /\ F[1].args[1].s = "sql_type")
        => outcome = TwoImpls(F[1].args[3].s, input.ident)

C1_Witness ==
    /\ Finished /\ Len(F) = 1 /\ IsPair(F[1].args) /\ F[1].args[1].s = "sql_type"
    /\ input.nvariants = 0
    /\ input.ident = "enumstruct"
    /\ Len(outcome.impls) = 2

\* C2: an enum with no fromtosql attribute, or whose fromtosql attributes are
\* all pairs with a key other than sql_type, fails with the usage diagnostic
\* of error_message and emits no code.
C2_UsageDiagnostic ==
    (Finished /\ \A i \in 1..Len(F) : IsPair(F[i].args) /\ F[i].args[1].s # "sql_type")
        => outcome = [kind |-> "abort", impls |-> <<>>,
                      msg |-> "fromtosql attribute not found."]

C2_Witness ==
    /\ Finished /\ Len(F) = 2
    /\ \A i \in 1..Len(F) : IsPair(F[i].args) /\ F[i].args[1].s # "sql_type"
    /\ F[1].args[1].s = "other_key" /\ F[2].args[1].s = "SQL_TYPE"
    /\ outcome.kind = "abort"

\* C3: whenever some fromtosql attribute's argument list is not exactly one
\* identifier = identifier pair, describe fails in the argument parser and
\* emits no code.
C3_MalformedIsFatal ==
    (Finished /\ \E i \in 1..Len(F) : ~IsPair(F[i].args))
        => (outcome.kind = "panic" /\ outcome.impls = <<>>)

\* C4: a declaration that is not an enum gets the declaration parser's error
\* at once: no attribute is inspected and no code is emitted.
C4_NonEnumRejected ==
    (pc = "done" /\ input.kind # "enum")
        => /\ outcome = [kind |-> "compile_error", impls |-> <<>>, msg |-> "expected enum"]
           /\ inspected = 0

C4_Witness ==
    /\ pc = "done" /\ input.kind = "struct"
    /\ Len(F) = 1 /\ IsPair(F[1].args) /\ F[1].args[1].s = "sql_type"
    /\ outcome.kind = "compile_error"

\* Position in F of the first attribute whose key is sql_type (0: none).
FirstSqlType ==
    LET hits == { i \in 1..Len(F) : F[i].args[1].s = "sql_type" }
    IN  IF hits = {} THEN 0 ELSE CHOOSE i \in hits : \A j \in hits : i <= j

\* C5: when every fromtosql attribute is a pair and one of them has the key
\* sql_type, the generated code uses the value of the first such attribute
\* in source order, whatever precedes or follows it; no error is raised.
C5_FirstMatchWins ==
    (/\ Finished
     /\ \A i \in 1..Len(F) : IsPair(F[i].args)
     /\ \E i \in 1..Len(F) : F[i].args[1].s = "sql_type")
        => outcome = TwoImpls(F[FirstSqlType].args[3].s, input.ident)

C5_Witness ==
    /\ Finished /\ Len(F) = 2
    /\ IsPair(F[1].args) /\ IsPair(F[2].args)
    /\ F[1].args[1].s = "sql_type" /\ F[2].args[1].s = "sql_type"
    /\ F[1].args[3].s # F[2].args[3].s
    /\ outcome.kind = "tokens"

\* C9: if any fromtosql attribute has an argument list the parser rejects,
\* the expansion dies in the parser and emits no code, also when an earlier
\* attribute supplied sql_type = T.
C9_AllParsedBeforeSelect ==
    (Finished /\ \E i \in 1..Len(F) : ~IsChain(F[i].args))
        => (outcome.kind = "panic" /\ outcome.impls = <<>>)

C9_Witness ==
    /\ Finished /\ Len(F) = 2
    /\ IsPair(F[1].args) /\ F[1].args[1].s = "sql_type"
    /\ ~IsChain(F[2].args)
    /\ outcome.kind = "panic"

\* C10: two expansions of enum declarations that agree on the name and on
\* the sequence of fromtosql attributes have the same outcome, whatever the
\* variants and the other attributes, and whatever was expanded before.
C10_Deterministic ==
    (Finished /\ prev.set /\ prev.key = Key(input)) => outcome = prev.outcome

C10_Witness ==
    /\ Finished /\ prev.set /\ prev.key = Key(input)
    /\ prev.nvariants # input.nvariants
    /\ prev.nattrs # Len(input.attrs)
    /\ outcome.kind = "tokens"

(***************************************************************************)
(* Properties of the generated code.                                       *)
(***************************************************************************)
\* The UTF-8 bytes of the code points the labels use.
Utf8Of(cp) == CASE cp = 65 -> <<65>> [] cp = 66 -> <<66>> [] cp = 233 -> <<195, 169>>

RECURSIVE Utf8OfText(_)
Utf8OfText(text) ==
    IF text = <<>> THEN <<>> ELSE Utf8Of(Head(text)) \o Utf8OfText(Tail(text))

\* The texts of at most n code points, and the text a byte sequence encodes.
TextsUpTo(n) == UNION { [1..k -> {65, 66, 233}] : k \in 0..n }
IsText(bs) == \E t \in TextsUpTo(Len(bs)) : Utf8OfText(t) = bs
TextOf(bs) == CHOOSE t \in TextsUpTo(Len(bs)) : Utf8OfText(t) = bs

\* from_str undoes to_string on every variant.
MutuallyInverse ==
    \A v \in Variants :
        /\ names[v] = display[v]
        /\ \A w \in Variants : w < v => names[w] # display[v]

\* C6: with mutually inverse Display and FromStr, from_sql on the bytes
\* to_sql wrote for V returns Ok(V).
C6_RoundTrip ==
    (rpc = "from_returned" /\ self # NoVariant /\ MutuallyInverse)
        => ret = [ok |-> TRUE, tag |-> "value", v |-> self, msg |-> <<>>]

C6_Witness ==
    /\ rpc = "from_returned" /\ self # NoVariant /\ MutuallyInverse
    /\ display[self] = <<233>>
    /\ bytes = <<195, 169>>
    /\ ret.ok

NamesNoVariant(text) == \A v \in Variants : names[v] # text

\* C7: from_sql on a text that names no variant returns an error whose
\* message holds the word Error and the debug form of that text.
C7_MessageHoldsText ==
    (rpc = "from_returned" /\ IsText(bytes) /\ NamesNoVariant(TextOf(bytes)))
        => /\ ~ret.ok
           /\ \E i \in 1..Len(ret.msg) : ret.msg[i] = Word("Error")
           /\ \E i \in 1..Len(ret.msg) : ret.msg[i] = DebugStr(TextOf(bytes))

\* C7 as amended: from_sql on a text that names no variant returns an error
\* whose message is "Error converting from PgValue " followed by the debug
\* form of the error from_str returned.
C7_MessageHoldsParseError ==
    (rpc = "from_returned" /\ IsText(bytes) /\ NamesNoVariant(TextOf(bytes)))
        => /\ ~ret.ok
           /\ ret.msg = <<Word("Error"), Word("converting"), Word("from"), Word("PgValue"),
                          IF errStyle = "strum" THEN DebugErr("VariantNotFound")
                          ELSE DebugStr(TextOf(bytes))>>

C7_Witness ==
    /\ rpc = "from_returned" /\ IsText(bytes) /\ NamesNoVariant(TextOf(bytes))
    /\ bytes = <<66>>
    /\ errStyle = "strum"
    /\ ~ret.ok

\* C8: to_sql appends exactly the UTF-8 bytes of the value's string form to
\* the buffer, whatever the buffer held, and returns Ok(IsNull::No).
C8_WritesAndSucceeds ==
    rpc = "to_returned"
        => /\ out = out0 \o Utf8OfText(display[self])
           /\ ret = [ok |-> TRUE, tag |-> "IsNull::No", v |-> NoVariant, msg |-> <<>>]

C8_Witness ==
    /\ rpc = "to_returned"
    /\ out0 # <<>>
    /\ display[self] = <<233>>
    /\ Len(out) = Len(out0) + 2

====
